---- MODULE Spec2Model ----
(***************************************************************************)
(* Blockchain manager of cardano-cli (src/blockchain/mod.rs): one named    *)
(* chain directory on disk (config file, tag store, block store) and the   *)
(* in-memory Blockchain value that operates on it.                         *)
(***************************************************************************)
EXTENDS Naturals, Sequences, FiniteSets, TLC

\* ------------------------------------------------------------------ bounds

\* Longest peer registry the model builds (Create's config and AddPeer).
MaxPeers == 2

\* Length n of the chain G -> B1 -> ... -> Bn that ranges are opened on.
MaxChain == 2

\* ------------------------------------------------------- the value universe

\* Header hashes of the blocks that can exist. The store is content-addressed:
\* a hash determines its header.
Hashes == {"G", "B1"}

\* Peer aliases and endpoints handed to Create and AddPeer.
PeerNames == {"a", "b"}
Endpoints == {"e1"}

\* block::BlockDate: Genesis(epoch) or Normal(epoch, slot).
DateGenesis(e) == <<"Genesis", e>>
DateNormal(e, s) == <<"Normal", e, s>>

\* The header stored under each hash: header.get_previous_header() and
\* header.get_blockdate().
\* The chain is G <- B1 <- ... <- Bn; X and Y name each other as parent
\* (malformed, cyclic parent data).
BlockHash(i) == "B" \o ToString(i)
HeaderParent(h) ==
    IF h = "G" THEN "P0"
    ELSE IF h = "X" THEN "Y"
    ELSE IF h = "Y" THEN "X"
    ELSE IF \E i \in 2..MaxChain : h = BlockHash(i)
         THEN BlockHash((CHOOSE i \in 2..MaxChain : h = BlockHash(i)) - 1)
         ELSE "G"
HeaderDate(h) == IF h = "G" THEN DateGenesis(0) ELSE DateNormal(0, 1)

\* The hashes ranges are opened on: the chain and the cyclic pair.
RangeHashes == {"G"} \cup {BlockHash(i) : i \in 1..MaxChain} \cup {"X", "Y"}

\* A block as read from the store; compute_hash of its header is its key.
Block(h) == [hash |-> h, parent |-> HeaderParent(h), date |-> HeaderDate(h)]

\* exe_common::config::net::NamedPeer(name, Peer::new(endpoint)).
NamedPeer(n, e) == [name |-> n, peer |-> e]

RECURSIVE SeqsUpTo(_, _)
SeqsUpTo(S, n) ==
    IF n = 0 THEN {<<>>}
    ELSE LET shorter == SeqsUpTo(S, n - 1)
         IN shorter \cup {Append(s, x) : s \in {t \in shorter : Len(t) = n - 1}, x \in S}

AllPeers == {NamedPeer(n, e) : n \in PeerNames, e \in Endpoints}

\* The configs Create is called with: genesis hash, genesis's declared parent,
\* epoch start and the pre-set peers.
GenesisHashes == {"G"}
Configs ==
    {[genesis |-> g, genesis_prev |-> HeaderParent(g), epoch_start |-> 0, peers |-> ps] :
        g \in GenesisHashes, ps \in SeqsUpTo(AllPeers, MaxPeers)}

\* ------------------------------------------------------------------- state

VARIABLES
    exists,     \* the chain directory <root>/<name> exists on disk
    cfgfile,    \* content of the chain's config file, or NoFile
    tags,       \* tag store: tag name -> header hash (a partial function)
    blobs,      \* block store: the hashes whose block is stored
    bc,         \* the Blockchain value held by the caller, or NoManager
    last,       \* the last call: operation, argument, outcome
    created,    \* what Create produced, while nothing has been mutated since
    it          \* the range iterator the caller holds, or NoIter

vars == <<exists, cfgfile, tags, blobs, bc, last, created, it>>

NoFile == <<>>
NoManager == [config |-> [genesis |-> "", genesis_prev |-> "", epoch_start |-> 0, peers |-> <<>>],
              origin |-> "none"]
NoTags == [t \in {} |-> ""]
NoRef == [hash |-> "", parent |-> "", date |-> <<"None">>]
NoTip == [ok |-> "none", ref |-> NoRef, is_genesis |-> FALSE]
\* `created` once something was mutated after Create: only "no save_tip since
\* Create" is still remembered.
Unmutated == [valid |-> FALSE, config |-> NoManager.config, tip |-> NoTip, untipped |-> FALSE]
Mutated(c) == [Unmutated EXCEPT !.untipped = c.untipped]

LOCAL_BLOCKCHAIN_TIP_TAG == "tip"
\* No iterator: none was opened, or the manager it borrowed from is gone.
NoIter == [state |-> "None", from |-> "", to |-> "", cur |-> "", path |-> <<>>,
           depth |-> 0, err |-> "", pos |-> 0, yielded |-> <<>>]

\* ----------------------------------------------- collaborators (spec 6)

\* tag::write_hash: upsert a tag.
write_hash(t, name, h) == [x \in (DOMAIN t) \cup {name} |-> IF x = name THEN h ELSE t[x]]

\* tag::remove_tag: idempotent delete.
remove_tag(t, name) == [x \in (DOMAIN t) \ {name} |-> t[x]]

\* Storage::get_block_from_tag: NoSuchTag when the tag is absent, another
\* storage error when the tag's block cannot be read, else the block.
get_block_from_tag(t, store, name) ==
    IF name \notin DOMAIN t THEN [err |-> "NoSuchTag", block |-> Block("G")]
    ELSE IF t[name] \notin store THEN [err |-> "BlockNotFound", block |-> Block("G")]
    ELSE [err |-> "", block |-> Block(t[name])]

\* Config::to_file / Config::from_file: the config file's content.
EncodePeers(ps) == [i \in 1..Len(ps) |-> <<ps[i].name, ps[i].peer>>]
DecodePeers(es) == [i \in 1..Len(es) |-> NamedPeer(es[i][1], es[i][2])]
to_file(c) == <<c.genesis, c.genesis_prev, c.epoch_start, EncodePeers(c.peers)>>
from_file(f) == [genesis |-> f[1], genesis_prev |-> f[2], epoch_start |-> f[3],
                 peers |-> DecodePeers(f[4])]

\* ------------------------------------------------------- Blockchain methods

\* mk_remote_tag
mk_remote_tag(remote) == "remote/" \o remote

\* save_tip writing its hash under the remote/ prefix.
save_tip_remote(t, hh) == write_hash(t, "remote/" \o LOCAL_BLOCKCHAIN_TIP_TAG, hh)

\* save_tip: the tag store after tag::write_hash(storage, "tip", hh).
save_tip(t, hh) == write_hash(t, LOCAL_BLOCKCHAIN_TIP_TAG, hh)

\* The config file written without the pre-set peers.
new_config_file_no_peers(config) == to_file([config EXCEPT !.peers = <<>>])

\* new, lines 35-36: the config file written at creation.
new_config_file(config) == to_file(config)

\* The peer tags written under the bare peer name, without the remote/ prefix.
RECURSIVE new_peer_tags_bare(_, _, _)
new_peer_tags_bare(t, ps, genesis) ==
    IF ps = <<>> THEN t
    ELSE new_peer_tags_bare(write_hash(t, Head(ps).name, genesis), Tail(ps), genesis)

\* new, lines 40-43: one remote/<peer> tag per pre-set peer, at genesis.
RECURSIVE new_peer_tags(_, _, _)
new_peer_tags(t, ps, genesis) ==
    IF ps = <<>> THEN t
    ELSE new_peer_tags(write_hash(t, "remote/" \o Head(ps).name, genesis), Tail(ps), genesis)

\* load_tip with the genesis test made against the genesis parent.
load_tip_parent_test(t, store, config) ==
    LET genesis_ref == [hash |-> config.genesis, parent |-> config.genesis_prev,
                        date |-> DateGenesis(config.epoch_start)]
        r == get_block_from_tag(t, store, LOCAL_BLOCKCHAIN_TIP_TAG)
    IN IF r.err = "NoSuchTag" THEN [ok |-> "ok", ref |-> genesis_ref, is_genesis |-> TRUE]
       ELSE IF r.err # "" THEN [ok |-> "panic", ref |-> NoRef, is_genesis |-> FALSE]
       ELSE [ok |-> "ok",
             ref |-> [hash |-> r.block.hash, parent |-> r.block.parent, date |-> r.block.date],
             is_genesis |-> (r.block.hash = genesis_ref.parent)]

\* load_tip falling back to the genesis default on every storage error.
load_tip_lenient(t, store, config) ==
    LET genesis_ref == [hash |-> config.genesis, parent |-> config.genesis_prev,
                        date |-> DateGenesis(config.epoch_start)]
        r == get_block_from_tag(t, store, LOCAL_BLOCKCHAIN_TIP_TAG)
    IN IF r.err # "" THEN [ok |-> "ok", ref |-> genesis_ref, is_genesis |-> TRUE]
       ELSE [ok |-> "ok",
             ref |-> [hash |-> r.block.hash, parent |-> r.block.parent, date |-> r.block.date],
             is_genesis |-> (r.block.hash = genesis_ref.hash)]

\* Blockchain::load_tip
load_tip(t, store, config) ==
    LET genesis_ref == [hash |-> config.genesis, parent |-> config.genesis_prev,
                        date |-> DateGenesis(config.epoch_start)]
        r == get_block_from_tag(t, store, LOCAL_BLOCKCHAIN_TIP_TAG)
    IN IF r.err = "NoSuchTag" THEN [ok |-> "ok", ref |-> genesis_ref, is_genesis |-> TRUE]
       ELSE IF r.err # "" THEN [ok |-> "panic", ref |-> NoRef, is_genesis |-> FALSE]
       ELSE LET hash == r.block.hash
                is_genesis == (hash = genesis_ref.hash)
            IN [ok |-> "ok",
                ref |-> [hash |-> hash, parent |-> r.block.parent, date |-> r.block.date],
                is_genesis |-> is_genesis]

\* peer::Peer::prepare(blockchain, name).load_local_tip(): resolves the tag
\* remote/<name> the way load_tip resolves tip.
peer_load_local_tip(t, store, config, name) ==
    LET genesis_ref == [hash |-> config.genesis, parent |-> config.genesis_prev,
                        date |-> DateGenesis(config.epoch_start)]
        r == get_block_from_tag(t, store, "remote/" \o name)
    IN IF r.err = "NoSuchTag" THEN [ok |-> "ok", ref |-> genesis_ref, is_genesis |-> TRUE]
       ELSE IF r.err # "" THEN [ok |-> "panic", ref |-> NoRef, is_genesis |-> FALSE]
       ELSE [ok |-> "ok",
             ref |-> [hash |-> r.block.hash, parent |-> r.block.parent, date |-> r.block.date],
             is_genesis |-> (r.block.hash = genesis_ref.hash)]

\* Blockchain::peers: the registry in its own order.
peers(config) == config.peers

\* load_remote_tips collecting the resolutions in reverse order.
load_remote_tips_reversed(t, store, config) ==
    LET ps == config.peers
        each == [i \in 1..Len(ps) |->
                    peer_load_local_tip(t, store, config, ps[Len(ps) + 1 - i].name)]
    IN IF \E i \in 1..Len(ps) : each[i].ok = "panic"
       THEN [ok |-> "panic", tips |-> <<>>]
       ELSE [ok |-> "ok", tips |-> each]

\* Blockchain::load_remote_tips: one resolution per peer, in peers() order;
\* the first resolution that panics aborts the call.
load_remote_tips(t, store, config) ==
    LET ps == peers(config)
        each == [i \in 1..Len(ps) |-> peer_load_local_tip(t, store, config, ps[i].name)]
    IN IF \E i \in 1..Len(ps) : each[i].ok = "panic"
       THEN [ok |-> "panic", tips |-> <<>>]
       ELSE [ok |-> "ok", tips |-> each]

\* Peers::push: append to the list.
peers_push(ps, name, peer) == Append(ps, NamedPeer(name, peer))

\* add_peer, lines 89-90: the registry after the push.
add_peer_registry(ps, remote_alias, remote_endpoint) ==
    peers_push(ps, remote_alias, remote_endpoint)

\* remove_peer dropping only the first entry named remote_alias.
remove_peer_registry_first(ps, remote_alias) ==
    IF \A i \in 1..Len(ps) : ps[i].name # remote_alias THEN ps
    ELSE LET k == CHOOSE i \in 1..Len(ps) :
                    /\ ps[i].name = remote_alias
                    /\ \A j \in 1..(i - 1) : ps[j].name # remote_alias
         IN SubSeq(ps, 1, k - 1) \o SubSeq(ps, k + 1, Len(ps))

\* The filter of remove_peer keeping the entries it should drop.
remove_peer_registry_inverted(ps, remote_alias) ==
    SelectSeq(ps, LAMBDA np : np.name = remote_alias)

\* remove_peer, line 108: the registry without the entries named remote_alias.
remove_peer_registry(ps, remote_alias) ==
    SelectSeq(ps, LAMBDA np : np.name # remote_alias)

HasPeer(ps, n) == \E i \in 1..Len(ps) : ps[i].name = n
CountPeer(ps, n) == Cardinality({i \in 1..Len(ps) : ps[i].name = n})

Call(op, arg, flag, ok) ==
    [op |-> op, arg |-> arg, flag |-> flag, ok |-> ok, tip |-> NoTip, tips |-> <<>>, prev |-> ""]

Init ==
    /\ exists = FALSE
    /\ cfgfile = NoFile
    /\ tags = NoTags
    /\ blobs = {}
    /\ bc = NoManager
    /\ last = Call("init", "", FALSE, "ok")
    /\ created = Unmutated
    /\ it = NoIter

\* new writing the config file before the storage is initialised.
new_config_first(config, io_ok) ==
    IF ~io_ok
    THEN /\ last' = Call("new", "", exists, "err")
         /\ cfgfile' = new_config_file(config)
         /\ UNCHANGED <<exists, tags, blobs, bc, created, it>>
    ELSE /\ exists' = TRUE
         /\ cfgfile' = new_config_file(config)
         /\ tags' = save_tip(new_peer_tags(tags, config.peers, config.genesis), config.genesis)
         /\ bc' = [config |-> config, origin |-> "new"]
         /\ last' = Call("new", "", exists, "ok")
         /\ created' = [valid |-> TRUE, config |-> config,
                        tip |-> load_tip(tags', blobs, config), untipped |-> TRUE]
         /\ it' = NoIter
         /\ UNCHANGED blobs

\* Blockchain::new
new(config, io_ok) ==
    IF ~io_ok
    THEN /\ last' = Call("new", "", exists, "err")
         /\ UNCHANGED <<exists, cfgfile, tags, blobs, bc, created, it>>
    ELSE /\ exists' = TRUE
         /\ cfgfile' = new_config_file(config)
         /\ tags' = save_tip(new_peer_tags(tags, config.peers, config.genesis), config.genesis)
         /\ bc' = [config |-> config, origin |-> "new"]
         /\ last' = Call("new", "", exists, "ok")
         /\ created' = [valid |-> TRUE, config |-> config,
                        tip |-> load_tip(tags', blobs, config), untipped |-> TRUE]
         /\ it' = NoIter
         /\ UNCHANGED blobs

\* Blockchain::load
load(io_ok) ==
    /\ created' = created
    /\ it' = NoIter
    /\ UNCHANGED <<cfgfile, tags, blobs>>
    /\ IF ~io_ok
       THEN /\ bc' = NoManager
            /\ last' = Call("load", "", exists, "panic")
            /\ UNCHANGED exists
       ELSE /\ exists' = TRUE
            /\ IF cfgfile = NoFile
               THEN /\ bc' = NoManager
                    /\ last' = Call("load", "", exists, "panic")
               ELSE /\ bc' = [config |-> from_file(cfgfile), origin |-> "load"]
                    /\ last' = [Call("load", "", exists, "ok") EXCEPT
                                  !.prev = IF last.op = "add_peer" THEN last.arg
                                           ELSE IF last.op = "save" THEN last.prev ELSE ""]

\* Blockchain::destroy
destroy ==
    /\ bc # NoManager
    /\ exists' = FALSE
    /\ cfgfile' = NoFile
    /\ tags' = NoTags
    /\ blobs' = {}
    /\ bc' = NoManager
    /\ last' = Call("destroy", "", FALSE, "ok")
    /\ created' = Unmutated
    /\ it' = NoIter

\* Blockchain::save
save ==
    /\ bc # NoManager
    /\ cfgfile' = to_file(bc.config)
    /\ last' = [Call("save", "", FALSE, "ok") EXCEPT
                  !.prev = IF last.op = "add_peer" THEN last.arg ELSE ""]
    /\ created' = Mutated(created)
    /\ UNCHANGED <<exists, tags, blobs, bc, it>>

\* add_peer persisting the config as well.
add_peer_saving(remote_alias, remote_endpoint) ==
    /\ bc # NoManager
    /\ Len(bc.config.peers) < MaxPeers
    /\ bc' = [bc EXCEPT !.config.peers = add_peer_registry(@, remote_alias, remote_endpoint)]
    /\ tags' = write_hash(tags, mk_remote_tag(remote_alias), bc.config.genesis)
    /\ cfgfile' = to_file(bc'.config)
    /\ last' = Call("add_peer", remote_alias, HasPeer(bc.config.peers, remote_alias), "ok")
    /\ created' = Mutated(created)
    /\ UNCHANGED <<exists, blobs, it>>

\* Blockchain::add_peer
add_peer(remote_alias, remote_endpoint) ==
    /\ bc # NoManager
    /\ Len(bc.config.peers) < MaxPeers
    /\ LET tag == mk_remote_tag(remote_alias)
       IN /\ bc' = [bc EXCEPT !.config.peers =
                        add_peer_registry(@, remote_alias, remote_endpoint)]
          /\ tags' = write_hash(tags, tag, bc.config.genesis)
    /\ last' = Call("add_peer", remote_alias, HasPeer(bc.config.peers, remote_alias), "ok")
    /\ created' = Mutated(created)
    /\ UNCHANGED <<exists, cfgfile, blobs, it>>

\* Blockchain::remove_peer
remove_peer(remote_alias) ==
    /\ bc # NoManager
    /\ bc' = [bc EXCEPT !.config.peers = remove_peer_registry(@, remote_alias)]
    /\ LET tag == mk_remote_tag(remote_alias)
       IN tags' = remove_tag(tags, tag)
    /\ last' = [Call("remove_peer", remote_alias, HasPeer(bc.config.peers, remote_alias), "ok")
                    EXCEPT !.prev = IF CountPeer(bc.config.peers, remote_alias) > 1
                                    THEN "several" ELSE ""]
    /\ created' = Mutated(created)
    /\ UNCHANGED <<exists, cfgfile, blobs, it>>

\* A call of load_tip by the holder of the manager; a panic ends the process
\* and with it the manager.
LoadTip ==
    /\ bc # NoManager
    /\ LET r == load_tip(tags, blobs, bc.config)
       IN /\ last' = [Call("load_tip", "", FALSE, r.ok) EXCEPT
                        !.tip = r,
                        !.prev = IF last.op = "save_tip" THEN last.arg ELSE ""]
          /\ bc' = IF r.ok = "panic" THEN NoManager ELSE bc
          /\ it' = IF r.ok = "panic" THEN NoIter ELSE it
    /\ UNCHANGED <<exists, cfgfile, tags, blobs, created>>

\* A call of load_remote_tips.
LoadRemoteTips ==
    /\ bc # NoManager
    /\ LET r == load_remote_tips(tags, blobs, bc.config)
       IN /\ last' = [Call("load_remote_tips", "", FALSE, r.ok) EXCEPT
                        !.tips = r.tips,
                        !.prev = IF last.op = "add_peer" THEN last.arg ELSE ""]
          /\ bc' = IF r.ok = "panic" THEN NoManager ELSE bc
          /\ it' = IF r.ok = "panic" THEN NoIter ELSE it
    /\ UNCHANGED <<exists, cfgfile, tags, blobs, created>>

\* A call of save_tip.
SaveTip(hh) ==
    /\ bc # NoManager
    /\ tags' = save_tip(tags, hh)
    /\ last' = [Call("save_tip", hh, FALSE, "ok") EXCEPT
                  !.prev = IF last.op = "iter_to_tip" /\ last.ok = "ok"
                           THEN "iter_to_tip" ELSE ""]
    /\ created' = Unmutated
    /\ UNCHANGED <<exists, cfgfile, blobs, bc, it>>

\* The block store is append-only: synchronisation stores a block under its
\* header hash.
StoreBlock(h) ==
    /\ exists
    /\ h \notin blobs
    /\ blobs' = blobs \cup {h}
    /\ last' = Call("store_block", h, FALSE, "ok")
    /\ created' = Mutated(created)
    /\ UNCHANGED <<exists, cfgfile, tags, bc, it>>

\* Synchronisation with peer n records the last block fetched from it: the
\* value of remote/<n> is updated as sync progresses.
PeerSync(n, h) ==
    /\ bc # NoManager
    /\ HasPeer(bc.config.peers, n)
    /\ h \in blobs
    /\ tags' = write_hash(tags, mk_remote_tag(n), h)
    /\ last' = Call("peer_sync", n, FALSE, "ok")
    /\ created' = Mutated(created)
    /\ UNCHANGED <<exists, cfgfile, blobs, bc, it>>

\* The calls made on an existing chain, and what synchronisation does to it.
Use ==
    \/ \E io_ok \in BOOLEAN : load(io_ok)
    \/ destroy
    \/ save
    \/ \E n \in PeerNames, e \in Endpoints : add_peer(n, e)
    \/ \E n \in PeerNames : remove_peer(n)
    \/ LoadTip
    \/ LoadRemoteTips
    \/ \E h \in Hashes : SaveTip(h)
    \/ \E h \in Hashes : StoreBlock(h)
    \/ \E n \in PeerNames, h \in Hashes : PeerSync(n, h)

\* A failed Storage::init leaves the same state whatever the config.
Next ==
    \/ \E c \in Configs : new(c, TRUE)
    \/ \E c \in {x \in Configs : Len(x.peers) <= 1} : new(c, FALSE)
    \/ Use

Spec == Init /\ [][Next]_vars

\* The callers that create a chain only where none exists yet.
NextFresh ==
    \/ \E c \in Configs : ~exists /\ new(c, TRUE)
    \/ \E c \in {x \in Configs : Len(x.peers) <= 1} : new(c, FALSE)
    \/ Use

SpecFresh == Init /\ [][NextFresh]_vars

\* ------------------------------------------------- the chain range iterator

\* The backward walk gives up after as many parent links as the store holds
\* blocks: a longer walk has met some block twice.
MaxDepth(store) == Cardinality(store)

\* iter::Iter::new, before the walk: an empty range when from = to, and
\* UnknownBlock(to) when to is not in the store.
iter_new(store, from, to) ==
    IF from = to
    THEN [NoIter EXCEPT !.state = "Ready", !.from = from, !.to = to]
    ELSE IF to \notin store
    THEN [NoIter EXCEPT !.state = "Failed", !.from = from, !.to = to,
                        !.err = "UnknownBlock", !.cur = to]
    ELSE [NoIter EXCEPT !.state = "Resolving", !.from = from, !.to = to, !.cur = to]

\* The walk putting each resolved hash behind the ones found before, which
\* gives the path from descendant to ancestor.
iter_walk_appending(store, i) ==
    LET parent == HeaderParent(i.cur)
        found == [i EXCEPT !.path = Append(i.path, i.cur), !.depth = i.depth + 1]
    IN IF parent = i.from THEN [found EXCEPT !.state = "Ready", !.cur = ""]
       ELSE IF parent \notin store
       THEN [found EXCEPT !.state = "Failed", !.err = "UnknownBlock", !.cur = parent,
                          !.path = <<>>]
       ELSE IF found.depth >= MaxDepth(store)
       THEN [found EXCEPT !.state = "Failed", !.err = "NoPathFound", !.cur = "",
                          !.path = <<>>]
       ELSE [found EXCEPT !.cur = parent]

\* The walk handing out what it has found when a parent link is missing.
iter_walk_partial(store, i) ==
    LET parent == HeaderParent(i.cur)
        found == [i EXCEPT !.path = <<i.cur>> \o i.path, !.depth = i.depth + 1]
    IN IF parent = i.from THEN [found EXCEPT !.state = "Ready", !.cur = ""]
       ELSE IF parent \notin store
       THEN [found EXCEPT !.state = "Ready", !.cur = ""]
       ELSE IF found.depth >= MaxDepth(store)
       THEN [found EXCEPT !.state = "Failed", !.err = "NoPathFound", !.cur = "",
                          !.path = <<>>]
       ELSE [found EXCEPT !.cur = parent]

\* iter::Iter::new, one step of the backward walk: the block under cur is
\* resolved and put in front of the path; the walk succeeds when its parent
\* is from, fails with UnknownBlock(parent) when the parent is not stored and
\* with NoPathFound(from, to) when the depth is used up.
iter_walk(store, i) ==
    LET parent == HeaderParent(i.cur)
        found == [i EXCEPT !.path = <<i.cur>> \o i.path, !.depth = i.depth + 1]
    IN IF parent = i.from THEN [found EXCEPT !.state = "Ready", !.cur = ""]
       ELSE IF parent \notin store
       THEN [found EXCEPT !.state = "Failed", !.err = "UnknownBlock", !.cur = parent,
                          !.path = <<>>]
       ELSE IF found.depth >= MaxDepth(store)
       THEN [found EXCEPT !.state = "Failed", !.err = "NoPathFound", !.cur = "",
                          !.path = <<>>]
       ELSE [found EXCEPT !.cur = parent]

\* Blockchain::iter
iter(store, from, to) == iter_new(store, from, to)

\* iter_to_tip ranging up to the genesis hash of the config.
iter_to_tip_genesis(t, store, config, from) ==
    LET tip == load_tip(t, store, config)
    IN IF tip.ok = "panic" THEN [ok |-> "panic", iter |-> NoIter]
       ELSE [ok |-> "ok", iter |-> iter(store, from, config.genesis)]

\* Blockchain::iter_to_tip: a panic of load_tip is a panic of the call.
iter_to_tip(t, store, config, from) ==
    LET tip == load_tip(t, store, config)
    IN IF tip.ok = "panic" THEN [ok |-> "panic", iter |-> NoIter]
       ELSE LET to == tip.ref.hash
            IN [ok |-> "ok", iter |-> iter(store, from, to)]

\* A call of iter.
Iter(from, to) ==
    /\ bc # NoManager
    /\ it' = iter(blobs, from, to)
    /\ last' = Call("iter", "", FALSE, "ok")
    /\ UNCHANGED <<exists, cfgfile, tags, blobs, bc, created>>

\* A call of iter_to_tip.
IterToTip(from) ==
    /\ bc # NoManager
    /\ LET r == iter_to_tip(tags, blobs, bc.config, from)
       IN /\ it' = r.iter
          /\ bc' = IF r.ok = "panic" THEN NoManager ELSE bc
          /\ last' = Call("iter_to_tip", from, FALSE, r.ok)
    /\ UNCHANGED <<exists, cfgfile, tags, blobs, created>>

\* Iter::new walking back one parent link.
IterWalk ==
    /\ it.state = "Resolving"
    /\ it' = iter_walk(blobs, it)
    /\ UNCHANGED <<exists, cfgfile, tags, blobs, bc, last, created>>

\* Iterator::next: the next block of the validated path, or nothing once the
\* path is used up.
IterNext ==
    /\ it.state \in {"Ready", "Exhausted"}
    /\ IF it.state = "Ready" /\ it.pos < Len(it.path)
       THEN /\ it' = [it EXCEPT !.pos = it.pos + 1,
                                !.yielded = Append(it.yielded, it.path[it.pos + 1])]
            /\ last' = Call("next", it.path[it.pos + 1], FALSE, "some")
       ELSE /\ it' = [it EXCEPT !.state = "Exhausted"]
            /\ last' = Call("next", "", FALSE, "none")
    /\ UNCHANGED <<exists, cfgfile, tags, blobs, bc, created>>

\* new stopped (the process is killed) after the config file is written and
\* before any tag is: the chain directory is left without a tip tag.
new_interrupted(config) ==
    /\ exists' = TRUE
    /\ cfgfile' = new_config_file(config)
    /\ bc' = NoManager
    /\ it' = NoIter
    /\ last' = Call("new", "", exists, "killed")
    /\ created' = Unmutated
    /\ UNCHANGED <<tags, blobs>>

\* The config the ranged chain is created with.
RangeConfig ==
    [genesis |-> "G", genesis_prev |-> HeaderParent("G"), epoch_start |-> 0, peers |-> <<>>]

\* One chain, created where none exists, synchronised, and read through
\* ranges. Iter::new runs to its end before anything else is called, and the
\* store is not written while an iterator borrows it.
NextRange ==
    \/ ~exists /\ new(RangeConfig, TRUE)
    \/ ~exists /\ new_interrupted(RangeConfig)
    \/ it.state # "Resolving" /\ load(TRUE)
    \/ \E h \in RangeHashes : it = NoIter /\ StoreBlock(h)
    \/ \E h \in RangeHashes : it.state # "Resolving" /\ SaveTip(h)
    \/ it.state # "Resolving" /\ LoadTip
    \/ \E from, to \in RangeHashes : it.state # "Resolving" /\ Iter(from, to)
    \/ \E from \in RangeHashes : it.state # "Resolving" /\ IterToTip(from)
    \/ IterWalk
    \/ IterNext

SpecRange == Init /\ [][NextRange]_vars

\* ------------------------------------------------------------------ claims

\* The genesis BlockRef of the chain on disk, as load_tip builds it.
GenesisRef(c) == [hash |-> c.genesis, parent |-> c.genesis_prev,
                  date |-> DateGenesis(c.epoch_start)]
GenesisDefault(c) == [ok |-> "ok", ref |-> GenesisRef(c), is_genesis |-> TRUE]

\* C1 (as claimed): on a chain made by new, a load_tip made before any
\* save_tip call returns the genesis BlockRef with the is-genesis flag true,
\* whatever the block store holds.
C1_TipDefault ==
    (last.op = "load_tip" /\ created.untipped /\ cfgfile # NoFile)
        => last.tip = GenesisDefault(from_file(cfgfile))

\* C2: load_tip right after save_tip(H), H's block being in the store, returns
\* a BlockRef whose hash is H, and the flag is true iff H is the genesis hash.
C2_TipRoundTrip ==
    (last.op = "load_tip" /\ last.prev \in blobs)
        => /\ last.tip.ok = "ok"
           /\ last.tip.ref.hash = last.prev
           /\ last.tip.is_genesis <=> (last.prev = bc.config.genesis)

C2_Witness ==
    /\ last.op = "load_tip"
    /\ last.prev \in blobs
    /\ last.prev = bc.config.genesis
    /\ last.tip.is_genesis

\* C3: after a successful new, the tip tag points at the config's genesis
\* hash, every pre-set peer has its remote/<name> tag at the genesis hash, and
\* the config file holds exactly the config.
C3_CreatePostState ==
    (last.op = "new" /\ last.ok = "ok")
        => /\ LOCAL_BLOCKCHAIN_TIP_TAG \in DOMAIN tags
           /\ tags[LOCAL_BLOCKCHAIN_TIP_TAG] = bc.config.genesis
           /\ \A i \in 1..Len(bc.config.peers) :
                LET tag == "remote/" \o bc.config.peers[i].name
                IN tag \in DOMAIN tags /\ tags[tag] = bc.config.genesis
           /\ cfgfile # NoFile
           /\ from_file(cfgfile) = bc.config

C3_Witness ==
    /\ last.op = "new"
    /\ last.ok = "ok"
    /\ Len(bc.config.peers) = 2
    /\ bc.config.peers[1].name # bc.config.peers[2].name

\* C4 (as claimed): load_remote_tips right after add_peer(name, ep) returns,
\* for that peer, the genesis BlockRef with the flag true; and after
\* remove_peer(name) the tag remote/<name> is absent.
C4_PeerTagLifecycle ==
    /\ (last.op = "load_remote_tips" /\ last.prev # "")
        => /\ last.ok = "ok"
           /\ \E i \in 1..Len(last.tips) :
                /\ bc.config.peers[i].name = last.prev
                /\ last.tips[i] = GenesisDefault(bc.config)
    /\ last.op = "remove_peer" => mk_remote_tag(last.arg) \notin DOMAIN tags

\* C5 (as claimed): while the manager made by new is used, a tag remote/<n>
\* exists iff the registry holds a peer named n.
C5_Lockstep ==
    (bc # NoManager /\ bc.origin = "new")
        => \A n \in PeerNames :
             (mk_remote_tag(n) \in DOMAIN tags) <=> HasPeer(bc.config.peers, n)

\* C6 (as claimed): add_peer of an alias the registry already holds fails with
\* DuplicatePeer and leaves exactly one entry of that alias.
C6_DuplicatePeer ==
    (last.op = "add_peer" /\ last.flag)
        => /\ last.ok = "DuplicatePeer"
           /\ CountPeer(bc.config.peers, last.arg) = 1

\* C7 (as claimed): remove_peer of an alias the registry does not hold raises
\* no error and changes neither the peer list nor any tag.
C7_RemoveAbsentNoOp ==
    [][(last'.op = "remove_peer" /\ ~last'.flag)
        => /\ last'.ok = "ok"
           /\ bc'.config.peers = bc.config.peers
           /\ tags' = tags]_vars

\* C7 (amended): remove_peer of an alias the registry does not hold raises no
\* error and leaves the peer list, the config file, the tip tag and every tag
\* other than remote/<alias> as they were; remote/<alias> itself is absent
\* afterwards, also when a tag of that name was still stored.
C7_RemoveAbsentFrame ==
    [][(last'.op = "remove_peer" /\ ~last'.flag)
        => /\ last'.ok = "ok"
           /\ bc'.config.peers = bc.config.peers
           /\ cfgfile' = cfgfile
           /\ DOMAIN tags' = (DOMAIN tags) \ {"remote/" \o last'.arg}
           /\ \A x \in DOMAIN tags' : tags'[x] = tags[x]]_vars

C7_Witness ==
    /\ last.op = "remove_peer"
    /\ ~last.flag
    /\ Len(bc.config.peers) > 0
    /\ LOCAL_BLOCKCHAIN_TIP_TAG \in DOMAIN tags
    /\ \E n \in PeerNames : ("remote/" \o n) \in DOMAIN tags

\* C8: a load_remote_tips that returns gives one pair per registry entry, the
\* i-th being the resolution of the i-th peer's remote/<name> tag; and the
\* registry's order is insertion order: add_peer appends at the end and
\* remove_peer keeps the remaining entries in their order.
C8_RemoteTipsInOrder ==
    [][/\ (last'.op = "load_remote_tips" /\ last'.ok = "ok")
            => /\ Len(last'.tips) = Len(bc.config.peers)
               /\ \A i \in 1..Len(bc.config.peers) :
                    last'.tips[i] =
                        peer_load_local_tip(tags, blobs, bc.config, bc.config.peers[i].name)
       /\ last'.op = "add_peer"
            => /\ Len(bc'.config.peers) = Len(bc.config.peers) + 1
               /\ SubSeq(bc'.config.peers, 1, Len(bc.config.peers)) = bc.config.peers
               /\ bc'.config.peers[Len(bc'.config.peers)].name = last'.arg
       /\ last'.op = "remove_peer"
            => \E keep \in SUBSET (1..Len(bc.config.peers)) :
                 /\ keep = {i \in 1..Len(bc.config.peers) : bc.config.peers[i].name # last'.arg}
                 /\ Len(bc'.config.peers) = Cardinality(keep)
                 /\ \A k \in 1..Len(bc'.config.peers) :
                      \E i \in keep :
                        /\ Cardinality({j \in keep : j <= i}) = k
                        /\ bc'.config.peers[k] = bc.config.peers[i]]_vars

C8_Witness ==
    /\ last.op = "load_remote_tips"
    /\ last.ok = "ok"
    /\ Len(last.tips) = 2
    /\ last.tips[1] # last.tips[2]

\* C9 (as claimed): new on a chain directory that already exists fails with
\* the initialization error and leaves the config file and the tags as they
\* were.
C9_CreateExistingFails ==
    [][(last'.op = "new" /\ last'.flag)
        => /\ last'.ok = "err"
           /\ cfgfile' = cfgfile
           /\ tags' = tags]_vars

\* C10: load after new, nothing mutated in between, returns a manager whose
\* config is the one given to new and whose load_tip result is the one
\* load_tip gave right after new.
C10_ReloadEquivalence ==
    (last.op = "load" /\ last.ok = "ok" /\ created.valid)
        => /\ bc.config = created.config
           /\ load_tip(tags, blobs, bc.config) = created.tip

C10_Witness ==
    /\ last.op = "load"
    /\ last.ok = "ok"
    /\ created.valid
    /\ Len(bc.config.peers) = 2
    /\ created.tip.ok = "ok"

\* C11: add_peer and remove_peer leave the config file as it was; the file
\* gets a new content only in new and save. So a load right after add_peer
\* gives the peer list the file held before the add_peer (it names the alias
\* only if the file already did), and a load after add_peer followed by save
\* gives a list that names the alias.
C11_ConfigFileFrame ==
    [][/\ last'.op \in {"add_peer", "remove_peer"} => cfgfile' = cfgfile
       /\ (cfgfile' # cfgfile /\ cfgfile' # NoFile) => last'.op \in {"new", "save"}
       /\ (last.op = "add_peer" /\ last'.op = "load" /\ last'.ok = "ok")
            => bc'.config.peers = from_file(cfgfile).peers
       /\ (last.op = "save" /\ last.prev # "" /\ last'.op = "load" /\ last'.ok = "ok")
            => /\ HasPeer(bc'.config.peers, last.prev)
               /\ bc'.config.peers = bc.config.peers]_vars

C11_Witness ==
    /\ last.op = "load"
    /\ last.ok = "ok"
    /\ last.prev # ""
    /\ ~HasPeer(bc.config.peers, last.prev)
    /\ mk_remote_tag(last.prev) \in DOMAIN tags

\* C15 (as claimed): no peer's tag remote/<name> is the tag tip, and no two
\* entries of the registry derive the same tag.
C15_TagNamespace ==
    bc # NoManager
        => /\ \A i \in 1..Len(bc.config.peers) :
                mk_remote_tag(bc.config.peers[i].name) # LOCAL_BLOCKCHAIN_TIP_TAG
           /\ \A i, j \in 1..Len(bc.config.peers) :
                i # j => mk_remote_tag(bc.config.peers[i].name)
                            # mk_remote_tag(bc.config.peers[j].name)

\* C16: save_tip(hash) succeeds for every hash, stored or not; afterwards the
\* tip tag points at hash, and the registry, the config, the config file, the
\* block store and every other tag are as they were.
C16_SaveTipFrame ==
    [][last'.op = "save_tip"
        => /\ last'.ok = "ok"
           /\ DOMAIN tags' = (DOMAIN tags) \cup {LOCAL_BLOCKCHAIN_TIP_TAG}
           /\ tags'[LOCAL_BLOCKCHAIN_TIP_TAG] = last'.arg
           /\ \A x \in (DOMAIN tags) \ {LOCAL_BLOCKCHAIN_TIP_TAG} : tags'[x] = tags[x]
           /\ bc' = bc
           /\ cfgfile' = cfgfile
           /\ blobs' = blobs]_vars

C16_Witness ==
    /\ last.op = "save_tip"
    /\ last.arg \notin blobs
    /\ last.arg # bc.config.genesis
    /\ \E n \in PeerNames : mk_remote_tag(n) \in DOMAIN tags

\* C18: a new whose Storage::init fails returns the error and writes neither
\* the config file nor any tag, and hands out no manager.
C18_CreateFailureFrame ==
    [][(last'.op = "new" /\ last'.ok = "err")
        => /\ cfgfile' = cfgfile
           /\ tags' = tags
           /\ exists' = exists
           /\ bc' = bc]_vars

C18_Witness ==
    /\ last.op = "new"
    /\ last.ok = "err"
    /\ ~exists

ChainStored(n) == \A i \in 1..n : BlockHash(i) \in blobs
ChainPath(n) == [i \in 1..n |-> BlockHash(i)]

\* C12: with B1..Bn stored, an iterator opened from G to Bn does not fail;
\* once constructed its path is exactly B1, ..., Bn (G left out, Bn last),
\* what it has yielded is the beginning of that path, and when it is
\* exhausted it has yielded all of it and an advance yields nothing.
C12_ValidRangeOrder ==
    \A n \in 1..MaxChain :
        (it.state # "None" /\ it.from = "G" /\ it.to = BlockHash(n) /\ ChainStored(n))
            => /\ it.state # "Failed"
               /\ it.state \in {"Ready", "Exhausted"}
                    => /\ it.path = ChainPath(n)
                       /\ it.yielded = SubSeq(it.path, 1, it.pos)
               /\ it.state = "Exhausted" => it.yielded = ChainPath(n)
               /\ (last.op = "next" /\ last.ok = "some")
                    => it.state = "Ready" /\ last.arg = it.path[it.pos]
               /\ (last.op = "next" /\ it.state = "Exhausted") => last.ok = "none"

C12_Witness ==
    /\ it.state = "Exhausted"
    /\ it.from = "G"
    /\ it.to = BlockHash(MaxChain)
    /\ it.yielded = ChainPath(MaxChain)
    /\ last.op = "next"

\* The k-th ancestor of h by the parent links of the headers.
RECURSIVE Back(_, _)
Back(h, k) == IF k = 0 THEN h ELSE HeaderParent(Back(h, k - 1))

\* from is reached from to by parent links of stored blocks.
Reaches(store, from, to) ==
    \E k \in 1..Cardinality(RangeHashes) :
        /\ Back(to, k) = from
        /\ \A j \in 0..(k - 1) : Back(to, j) \in store

\* C13: an iterator opened from X to a stored Y that does not reach X by
\* parent links never becomes ready and never yields: its construction walks
\* at most as many links as the store holds blocks and ends in NoPathFound,
\* or in UnknownBlock of a parent that is not stored. Whatever the range,
\* nothing is yielded before the path is validated back to from.
C13_DisconnectedRange ==
    /\ (it.state # "None" /\ it.from # it.to /\ it.to \in blobs
            /\ ~Reaches(blobs, it.from, it.to))
        => /\ it.state \in {"Resolving", "Failed"}
           /\ it.yielded = <<>>
           /\ it.state = "Failed"
                => /\ it.err \in {"NoPathFound", "UnknownBlock"}
                   /\ it.path = <<>>
                   /\ it.err = "UnknownBlock" => it.cur \notin blobs
    /\ it.depth <= MaxDepth(blobs)
    /\ it.state = "Resolving" => it.yielded = <<>> /\ it.cur \in blobs
    /\ it.yielded # <<>>
        => /\ it.state \in {"Ready", "Exhausted"}
           /\ Reaches(blobs, it.from, it.to)

C13_Witness ==
    /\ it.state = "Failed"
    /\ it.err = "NoPathFound"
    /\ it.to \in blobs
    /\ it.depth > 1

\* The hash the tip tag points at, or the genesis hash when there is no tip
\* tag.
TipHash ==
    IF LOCAL_BLOCKCHAIN_TIP_TAG \in DOMAIN tags THEN tags[LOCAL_BLOCKCHAIN_TIP_TAG]
    ELSE from_file(cfgfile).genesis

\* C14 (as claimed): an iterator opened from H to H is ready with nothing to
\* yield, whatever H; and iter_to_tip called with the current tip hash
\* succeeds with nothing to yield.
C14_EmptyRange ==
    /\ (it.state # "None" /\ it.from = it.to)
        => it.state \in {"Ready", "Exhausted"} /\ it.path = <<>> /\ it.yielded = <<>>
    /\ (last.op = "iter_to_tip" /\ last.arg = TipHash)
        => /\ last.ok = "ok"
           /\ it.state \in {"Ready", "Exhausted"}
           /\ it.path = <<>>

C19_RangeToTip ==
    [][/\ (last'.op = "iter_to_tip" /\ it.state # "Resolving")
            => LET tip == load_tip(tags, blobs, bc.config)
               IN IF tip.ok = "panic"
                  THEN last'.ok = "panic" /\ it' = NoIter /\ bc' = NoManager
                  ELSE /\ last'.ok = "ok"
                       /\ it' = iter(blobs, last'.arg, tip.ref.hash)
                       /\ it'.to = IF LOCAL_BLOCKCHAIN_TIP_TAG \in DOMAIN tags
                                   THEN tags[LOCAL_BLOCKCHAIN_TIP_TAG]
                                   ELSE bc.config.genesis
       /\ last'.op = "save_tip" => it' = it]_vars

C19_Witness ==
    /\ last.op = "save_tip"
    /\ last.prev = "iter_to_tip"
    /\ it.state = "Ready"
    /\ it.path # <<>>
    /\ it.to # last.arg

====
